---- MODULE Spec2Model ----
(***************************************************************************)
(* Context processing (src/context/merge.rs: join_value, join_value_impl,  *)
(* process_single_null, process_single_string) and the reverse branch of   *)
(* term definition creation (src/context/create_term_def/reverse.rs:       *)
(* run_for_reverse, process_conatiner).                                    *)
(*                                                                         *)
(* A Context is modelled as a non-empty sequence of layers: the head is    *)
(* the context's own term_definitions, the tail is its previous_context    *)
(* chain (absent when the sequence has one element).                       *)
(***************************************************************************)
EXTENDS Integers, Sequences, FiniteSets, TLC

\* ------------------------------------------------------------------ bounds
\* longest local-context array handed to join_value
MaxLen == 2
\* deepest nesting of join_value_impl activations that is explored
MaxDepth == 4
\* largest processor-defined remote context limit that is explored
MaxLimit == 1

\* ------------------------------------------------------------------ values
Terms == {"t1", "t2"}

\* identifiers of remote documents, and the base of the top-level local context
Iris == {"p/x", "q/x"}
TopBase == "p/top"

\* reference strings found in string entries: two absolute references, one
\* relative reference and one string that is no IRI reference
Refs == {"p/x", "q/x", "x", "%"}

AbsentDef == [k |-> "absent"]
ContainerUnset == [k |-> "unset"]
TermDef(iri, reverse, container, protected) ==
    [k |-> "def", iri |-> iri, reverse |-> reverse, container |-> container,
     protected |-> protected]

\* Context::new(): no term definitions, no previous context
EmptyLayer == [t \in Terms |-> AbsentDef]
NewContext == <<EmptyLayer>>

has_previous_context(c) == Len(c) > 1

has_protected_term_definition(c) ==
    \E t \in Terms : c[1][t].k = "def" /\ c[1][t].protected

\* c.previous_context = Some(Box::new(p))
WithPrevious(c, p) == <<c[1]>> \o p

\* mutant: the definition is built but never inserted
WithTerm_Dropped(c, term, def) == c
\* c.term_definitions.insert(term, Nullable::Value(def))
WithTerm(c, term, def) == <<[c[1] EXCEPT ![term] = def]>> \o Tail(c)

\* ------------------------------------------------------- local context values
JNull == [t |-> "null"]
JNum == [t |-> "num"]
JStr(r) == [t |-> "str", ref |-> r]
\* a context definition object: the term it defines, whether the definition
\* is protected, and its @propagate member ("absent", "true", "false", or
\* "other" for a value that is not a boolean)
JObj(term, protected, propagate) ==
    [t |-> "obj", term |-> term, protected |-> protected, propagate |-> propagate]
JArr(items) == [t |-> "arr", items |-> items]

\* the entries a local context is built from
Entries ==
    {JNull, JNum, JStr("p/x"), JStr("q/x"), JStr("x"), JStr("%"),
     JObj("t1", FALSE, "absent"), JObj("t2", TRUE, "absent"),
     JObj("t1", FALSE, "false"), JObj("t1", FALSE, "other")}

SeqsUpTo(S, n) == UNION {[1..m -> S] : m \in 0..n}

LocalContexts == Entries \cup {JArr(s) : s \in SeqsUpTo(Entries, MaxLen)}

\* active contexts handed to join_value
ProtCtx == <<[EmptyLayer EXCEPT !["t2"] = TermDef("i:t2", FALSE, ContainerUnset, TRUE)]>>
PrevCtx == <<[EmptyLayer EXCEPT !["t1"] = TermDef("i:t1", FALSE, ContainerUnset, FALSE)],
             EmptyLayer>>
ActiveContexts == {NewContext, ProtCtx, PrevCtx}

\* json::to_ref_array: an array gives its elements, any other value itself
to_ref_array(v) == IF v.t = "arr" THEN v.items ELSE <<v>>

\* mutant: the @propagate entry of the local context is not read
EffectivePropagate_Inherited(v, propagate) == propagate
\* local_context.value().get("@propagate").and_then(Value::as_bool).unwrap_or(propagate)
EffectivePropagate(v, propagate) ==
    IF v.t = "obj" /\ v.propagate \in {"true", "false"}
    THEN v.propagate = "true"
    ELSE propagate

\* ------------------------------------------------------------ remote loading
NoDoc == [k |-> "none"]
LoadFailure == [k |-> "fail"]
DocWithout == [k |-> "noctx"]
DocWith(v) == [k |-> "doc", ctx |-> v]

\* what the loader may answer for an identifier
OtherIri(iri) == IF iri = "p/x" THEN "q/x" ELSE "p/x"
LoaderAnswers(iri) ==
    {LoadFailure, DocWithout, DocWith(JNull), DocWith(JStr("x")),
     DocWith(JStr(OtherIri(iri))), DocWith(JObj("t2", TRUE, "absent"))}

\* IriReferenceStr::new: whether the string is an IRI reference
IsIriReference(r) == r # "%"

\* context.resolve_against(base): an absolute reference resolves to itself,
\* the relative reference "x" replaces the last segment of the base
DirOf(base) == IF base = "q/x" THEN "q" ELSE "p"
Resolve(r, base) ==
    IF r = "x" THEN (IF DirOf(base) = "q" THEN "q/x" ELSE "p/x") ELSE r

VARIABLES
    active0,    \* the caller's active context
    local0,     \* the caller's local context value
    override0,  \* OptionalParams.override_protected
    propagate0, \* OptionalParams.propagate
    limit,      \* the processor's remote context limit
    world,      \* what the loader has answered so far, per identifier
    stack,      \* the activations of join_value_impl, outermost first
    cache,      \* remote_contexts_cache of the running top-level call
    loads,      \* the loader calls of the running top-level call, in order
    outs,       \* the outcomes of the finished top-level calls
    rev,        \* one call of run_for_reverse: its arguments and what it left
    par         \* two concurrent top-level calls: the one that is not being polled

vars == <<active0, local0, override0, propagate0, limit, world, stack, cache, loads, outs, rev, par>>

\* the outcome of a top-level call: Ok(context) or Err(code); an error keeps
\* the count it reports, and both keep the loader calls made and the cache
\* as the call left them
OkOut(c) ==
    [st |-> "ok", ctx |-> c, code |-> "", count |-> 0, loads |-> loads, cache |-> cache]
ErrOut(code, n, ld) ==
    [st |-> "err", ctx |-> <<>>, code |-> code, count |-> n, loads |-> ld, cache |-> cache]

\* Processor::is_remote_context_limit_exceeded
is_remote_context_limit_exceeded(n) == n >= limit

\* mutant: step 3 never snapshots the active context
NewFrame_NoSnapshot(active, lc, base, rc, op, propagate) ==
    [active |-> active, base |-> base, items |-> to_ref_array(lc), i |-> 1,
     rc0 |-> rc, rc |-> rc, op |-> op, prop |-> EffectivePropagate(lc, propagate),
     result |-> active,
     pc |-> "entry", iri |-> "", doc |-> NoDoc, hit |-> FALSE, glen |-> 0]
\* join_value_impl steps 1-4: the activation record of one call
NewFrame(active, lc, base, rc, op, propagate) ==
    LET eff == EffectivePropagate(lc, propagate)
        result == IF ~eff /\ has_previous_context(active)
                  THEN WithPrevious(active, active)
                  ELSE active
    IN [active |-> active, base |-> base, items |-> to_ref_array(lc), i |-> 1,
        rc0 |-> rc, rc |-> rc, op |-> op, prop |-> eff, result |-> result,
        pc |-> "entry", iri |-> "", doc |-> NoDoc, hit |-> FALSE, glen |-> 0]

Top == stack[Len(stack)]
SetTop(f) == [stack EXCEPT ![Len(stack)] = f]
Running == stack # <<>>
\* mutant: the loop walks the entries from the last to the first
EntryAt_Reversed(f) == f.items[Len(f.items) + 1 - f.i]
\* for context in local_context.into_value(): the entry the loop is at
EntryAt(f) == f.items[f.i]
AtEntry(kinds) ==
    /\ Running
    /\ Top.pc = "entry"
    /\ Top.i <= Len(Top.items)
    /\ EntryAt(Top).t \in kinds

\* mutant: the error of an entry is dropped and the loop goes on
Fail_Ignored(code, n, ld) ==
    /\ stack' = [stack EXCEPT ![Len(stack)] = [@ EXCEPT !.i = @ + 1, !.pc = "entry"]]
    /\ outs' = outs
\* `?`: the error leaves every activation at once
Fail(code, n, ld) ==
    /\ stack' = <<>>
    /\ outs' = Append(outs, ErrOut(code, n, ld))

\* the top-level calls of one run: join_value(A, L); a two-element array
\* L = [a, b] is preceded by join_value(A, a) and followed, when that first
\* call succeeded, by join_value(its result, b)
IsPair == local0.t = "arr" /\ Len(local0.items) = 2
Planned ==
    IF ~IsPair THEN 1
    ELSE IF Len(outs) >= 1 /\ outs[1].st = "err" THEN 2 ELSE 3
Main == IF IsPair THEN 2 ELSE 1
Finished == ~Running /\ Len(outs) = Planned
InMain == Running /\ Len(outs) = Main - 1

Init ==
    /\ active0 \in ActiveContexts
    /\ local0 \in LocalContexts
    /\ override0 \in BOOLEAN
    /\ propagate0 \in BOOLEAN
    /\ limit \in 0..MaxLimit
    /\ world = [i \in Iris |-> NoDoc]
    /\ stack = <<>>
    /\ cache = [i \in Iris |-> NoDoc]
    /\ loads = <<>>
    /\ outs = <<>>
    /\ rev = [phase |-> "idle"]
    /\ par = [phase |-> "idle"]

\* join_value: a top-level call starts with the caller's remote_contexts and a fresh cache
Call ==
    /\ ~Running
    /\ Len(outs) < Planned
    /\ LET k == Len(outs) + 1
           a == IF k = 3 THEN outs[1].ctx ELSE active0
           l == IF k = Main THEN local0 ELSE local0.items[IF k = 1 THEN 1 ELSE 2]
       IN stack' = <<NewFrame(a, l, TopBase, {}, override0, propagate0)>>
    /\ cache' = [i \in Iris |-> NoDoc]
    /\ loads' = <<>>
    /\ UNCHANGED <<par, rev, active0, local0, override0, propagate0, limit, world, outs>>

\* mutant: the replaced context is never chained as previous context
NullResult_Unchained(f) == NewContext
\* process_single_null, step 5.1.2
NullResult(f) ==
    IF f.prop THEN NewContext ELSE WithPrevious(NewContext, f.result)

ProcessNull ==
    /\ AtEntry({"null"})
    /\ IF ~Top.op /\ has_protected_term_definition(Top.active)
       THEN Fail("InvalidContextNullification", 0, loads)
       ELSE /\ stack' = SetTop([Top EXCEPT !.result = NullResult(Top), !.i = @ + 1])
            /\ UNCHANGED outs
    /\ UNCHANGED <<par, rev, active0, local0, override0, propagate0, limit, world, cache, loads>>

\* remote_contexts_cache.entry(context)
CacheLookup(c, iri) == c[iri]
AfterGuard(f, iri) ==
    LET e == CacheLookup(cache, iri)
    IN [f EXCEPT !.rc = @ \cup {iri}, !.iri = iri, !.glen = Cardinality(f.rc),
                 !.hit = e.k # "none", !.doc = e,
                 !.pc = IF e.k # "none" THEN "enter" ELSE "load"]

\* process_single_string, steps 5.2.1-5.2.3: resolve, guard, record, look up the cache
ProcessString ==
    /\ AtEntry({"str"})
    /\ LET r == EntryAt(Top).ref
           iri == Resolve(r, Top.base)
           n == Cardinality(Top.rc)
       IN IF ~IsIriReference(r) THEN Fail("Uncategorized", 0, loads)
          ELSE IF ~is_remote_context_limit_exceeded(n) THEN Fail("ContextOverflow", n, loads)
          ELSE /\ stack' = SetTop(AfterGuard(Top, iri))
               /\ UNCHANGED outs
    /\ UNCHANGED <<par, rev, active0, local0, override0, propagate0, limit, world, cache, loads>>

\* mutant: the fetched document is not kept
CacheInsert_Dropped(c, iri, doc) == c
\* mutant: inserting a document evicts the other entries
CacheInsert_Evicting(c, iri, doc) == [i \in Iris |-> IF i = iri THEN doc ELSE NoDoc]
\* entry.insert(doc)
CacheInsert(c, iri, doc) == [c EXCEPT ![iri] = doc]

\* process_single_string, step 5.2.4: the loader answers
LoaderRespond ==
    /\ Running
    /\ Top.pc = "load"
    /\ \E d \in LoaderAnswers(Top.iri) :
          /\ world[Top.iri].k # "none" => d = world[Top.iri]
          /\ world' = [world EXCEPT ![Top.iri] = d]
          /\ loads' = Append(loads, Top.iri)
          /\ IF d.k = "fail"
             THEN /\ Fail("LoadingRemoteContextFailed", 0, loads')
                  /\ UNCHANGED cache
             ELSE /\ cache' = CacheInsert(cache, Top.iri, d)
                  /\ stack' = SetTop([Top EXCEPT !.pc = "enter", !.doc = d])
                  /\ UNCHANGED outs
    /\ UNCHANGED <<par, rev, active0, local0, override0, propagate0, limit>>

\* mutant: the recursion starts from the call's active context, not from result
ChildFrame_FromActive(f, doc) ==
    NewFrame(f.active, doc.ctx, f.iri, f.rc, f.op, f.prop)
\* join_value_impl_recursive(processor, &result, .., remote_contexts.clone(), ..)
ChildFrame(f, doc) ==
    NewFrame(f.result, doc.ctx, f.iri, f.rc, f.op, f.prop)

\* process_single_string, steps 5.2.5-5.2.6: extract @context and recurse
Recurse ==
    /\ Running
    /\ Top.pc = "enter"
    /\ LET doc == Top.doc
       IN \/ /\ doc.k = "noctx"
             /\ Fail("InvalidRemoteContext", 0, loads)
          \/ /\ doc.k = "doc"
             /\ Len(stack) < MaxDepth
             /\ stack' = Append(SetTop([Top EXCEPT !.pc = "wait"]), ChildFrame(Top, doc))
             /\ UNCHANGED outs
    /\ UNCHANGED <<par, rev, active0, local0, override0, propagate0, limit, world, cache, loads>>

\* ctx_def::process_context_definition: the object's term is defined in result
process_context_definition(f, obj) ==
    WithTerm(f.result, obj.term,
             TermDef("i:" \o obj.term, FALSE, ContainerUnset, obj.protected))

ProcessObject ==
    /\ AtEntry({"obj"})
    /\ stack' = SetTop([Top EXCEPT !.result = process_context_definition(Top, EntryAt(Top)),
                                   !.i = @ + 1])
    /\ UNCHANGED <<par, rev, active0, local0, override0, propagate0, limit, world, cache, loads, outs>>

\* step 5.3: any other entry
InvalidEntry ==
    /\ AtEntry({"num", "arr"})
    /\ Fail("InvalidLocalContext", 0, loads)
    /\ UNCHANGED <<par, rev, active0, local0, override0, propagate0, limit, world, cache, loads>>

\* mutant: the visited set is shared with the recursion instead of copied
AfterReturn_SharedVisited(parent, child) ==
    [parent EXCEPT !.result = child.result, !.i = @ + 1, !.pc = "entry", !.rc = child.rc]
\* result = join_value_impl_recursive(..).await?, then the next entry
AfterReturn(parent, child) ==
    [parent EXCEPT !.result = child.result, !.i = @ + 1, !.pc = "entry"]

\* step 6: Ok(result), to the caller or to the string entry that recursed
Return ==
    /\ Running
    /\ Top.pc = "entry"
    /\ Top.i > Len(Top.items)
    /\ IF Len(stack) = 1
       THEN /\ stack' = <<>>
            /\ outs' = Append(outs, OkOut(Top.result))
       ELSE /\ stack' = Append(SubSeq(stack, 1, Len(stack) - 2),
                               AfterReturn(stack[Len(stack) - 1], Top))
            /\ UNCHANGED outs
    /\ UNCHANGED <<par, rev, active0, local0, override0, propagate0, limit, world, cache, loads>>

Next ==
    \/ Call
    \/ ProcessNull
    \/ ProcessString
    \/ LoaderRespond
    \/ Recurse
    \/ ProcessObject
    \/ InvalidEntry
    \/ Return

Spec == Init /\ [][Next]_vars

\* ------------------------------------------------ reverse term definitions
\* most items an @container array holds
MaxItems == 2

ContainerKeywords == {"@set", "@index", "@list", "@language", "@type", "@id", "@graph"}

\* JSON values found under @container and @reverse
WAbsent == [k |-> "absent"]
WNull == [k |-> "null"]
WNum == [k |-> "num"]
WStr(x) == [k |-> "str", s |-> x]
WArr(items) == [k |-> "arr", items |-> items]

DistinctSeqs(S, n) ==
    {q \in UNION {[1..m -> S] : m \in 1..n} : \A i, j \in DOMAIN q : i # j => q[i] # q[j]}
WireContainers ==
    {WAbsent, WNull, WNum}
        \cup {WStr(x) : x \in ContainerKeywords \cup {"bogus"}}
        \cup {WArr(q) : q \in DistinctSeqs(ContainerKeywords \cup {"bogus"}, MaxItems)}

\* @reverse strings: one with the form of a keyword, an absolute IRI, a blank
\* node identifier, a relative reference, and a term of the local context
ReverseStrings == {"@type", "http://a/p", "_:b0", "rel", "dep"}
WireReverses == {WNum} \cup {WStr(x) : x \in ReverseStrings}

\* Nullable::<Container>::try_from
ParsedNull == [k |-> "null"]
ParsedItems(items) == [k |-> "items", items |-> items]
ParseError == [k |-> "error"]
ParseContainer(w) ==
    IF w.k = "null" THEN ParsedNull
    ELSE IF w.k = "str" /\ w.s \in ContainerKeywords THEN ParsedItems(<<w.s>>)
    ELSE IF w.k = "arr" /\ \A i \in DOMAIN w.items : w.items[i] \in ContainerKeywords
    THEN ParsedItems(w.items)
    ELSE ParseError

\* Container::get_single_item
get_single_item(c) == IF Len(c.items) = 1 THEN c.items[1] ELSE "none"

\* DefinitionBuilder and its build()
NewBuilder(protected) ==
    [iri |-> "", reverse |-> FALSE, container |-> ContainerUnset, protected |-> protected]
Build(b) == TermDef(b.iri, b.reverse, b.container, b.protected)

\* syntax::has_form_of_keyword
has_form_of_keyword(x) == x \in {"@type"}

\* iri::is_absolute_ref_or_blank_node_ident
is_absolute_ref_or_blank_node_ident(x) == x \in {"http://a/p", "http://a/dep", "_:b0"}

OtherTerm(t) == IF t = "t1" THEN "t2" ELSE "t1"

\* ExpandIriOptions::mutable(..).vocab(true).expand_str: a string that is no
\* term expands to itself; the term "dep" has a null mapping, or is part of a
\* cycle, or gets its own definition created first
ExpandIri(r, x) ==
    IF x # "dep"
    THEN [k |-> "value", v |-> x, ctx |-> r.ctx, defined |-> r.defined]
    ELSE IF r.expand = "null"
    THEN [k |-> "null", v |-> "", ctx |-> r.ctx, defined |-> r.defined]
    ELSE IF r.expand = "error"
    THEN [k |-> "error", v |-> "CyclicIriMapping", ctx |-> r.ctx, defined |-> r.defined]
    ELSE [k |-> "value", v |-> "http://a/dep",
          ctx |-> WithTerm(r.ctx, OtherTerm(r.term),
                           TermDef("http://a/dep", FALSE, ContainerUnset, FALSE)),
          defined |-> [r.defined EXCEPT ![OtherTerm(r.term)] = "true"]]

\* mutant: only @id is looked for
HasIdOnly(value) == value.id
\* step 14.1: value.contains_key("@id") || value.contains_key("@nest")
HasIdOrNest(value) == value.id \/ value.nest

\* the result of process_conatiner: Ok(()) with the builder it leaves, or the error
ContainerOk(definition) == [ok |-> TRUE, code |-> "", definition |-> definition]
ContainerErr(code, definition) == [ok |-> FALSE, code |-> code, definition |-> definition]
\* mutant: every container that parses is accepted
process_conatiner_Unchecked(value, definition) ==
    IF value.container.k = "absent" THEN ContainerOk(definition)
    ELSE LET container == ParseContainer(value.container)
         IN IF container.k = "error"
            THEN ContainerErr("InvalidContainerMapping", definition)
            ELSE ContainerOk([definition EXCEPT !.container = container])
\* process_conatiner, step 14.5
process_conatiner(value, definition) ==
    IF value.container.k = "absent" THEN ContainerOk(definition)
    ELSE LET container == ParseContainer(value.container)
         IN IF container.k = "error"
            THEN ContainerErr("InvalidContainerMapping", definition)
            ELSE IF container.k = "null" \/ get_single_item(container) \in {"@set", "@index"}
            THEN ContainerOk([definition EXCEPT !.container = container])
            ELSE ContainerErr("InvalidReverseProperty", definition)

\* run_for_reverse: its result, and the active context and the defined map
\* as it leaves them
RevResult(out, ctx, defined, expanded) ==
    [out |-> out, ctx |-> ctx, defined |-> defined, expanded |-> expanded]
\* mutant: step 14.3 is left out, a keyword-shaped @reverse is expanded like
\* any other string
run_for_reverse_NoKeywordStep(r) ==
    IF HasIdOrNest(r.value)
    THEN RevResult("InvalidReverseProperty", r.ctx, r.defined, FALSE)
    ELSE IF r.reverse.k # "str"
    THEN RevResult("InvalidIriMapping", r.ctx, r.defined, FALSE)
    ELSE LET e == ExpandIri(r, r.reverse.s)
         IN IF e.k = "error" THEN RevResult(e.v, e.ctx, e.defined, TRUE)
            ELSE IF e.k = "null" THEN RevResult("InvalidIriMapping", e.ctx, e.defined, TRUE)
            ELSE IF ~is_absolute_ref_or_blank_node_ident(e.v)
            THEN RevResult("InvalidIriMapping", e.ctx, e.defined, TRUE)
            ELSE LET c == process_conatiner(r.value, [r.builder EXCEPT !.iri = e.v])
                 IN IF ~c.ok THEN RevResult(c.code, e.ctx, e.defined, TRUE)
                    ELSE RevResult("ok",
                                   WithTerm(e.ctx, r.term,
                                            Build([c.definition EXCEPT !.reverse = TRUE])),
                                   [e.defined EXCEPT ![r.term] = "true"], TRUE)
\* mutant: the container (step 14.5) is processed before @reverse is expanded
run_for_reverse_ContainerFirst(r) ==
    IF HasIdOrNest(r.value)
    THEN RevResult("InvalidReverseProperty", r.ctx, r.defined, FALSE)
    ELSE IF r.reverse.k # "str"
    THEN RevResult("InvalidIriMapping", r.ctx, r.defined, FALSE)
    ELSE IF has_form_of_keyword(r.reverse.s)
    THEN RevResult("ok", r.ctx, r.defined, FALSE)
    ELSE LET c == process_conatiner(r.value, r.builder)
         IN IF ~c.ok THEN RevResult(c.code, r.ctx, r.defined, FALSE)
            ELSE LET e == ExpandIri(r, r.reverse.s)
                 IN IF e.k = "error" THEN RevResult(e.v, e.ctx, e.defined, TRUE)
                    ELSE IF e.k = "null" \/ ~is_absolute_ref_or_blank_node_ident(e.v)
                    THEN RevResult("InvalidIriMapping", e.ctx, e.defined, TRUE)
                    ELSE RevResult("ok",
                                   WithTerm(e.ctx, r.term,
                                            Build([c.definition EXCEPT !.iri = e.v,
                                                                       !.reverse = TRUE])),
                                   [e.defined EXCEPT ![r.term] = "true"], TRUE)
\* run_for_reverse, steps 14.1-14.7
run_for_reverse(r) ==
    IF HasIdOrNest(r.value)
    THEN RevResult("InvalidReverseProperty", r.ctx, r.defined, FALSE)
    ELSE IF r.reverse.k # "str"
    THEN RevResult("InvalidIriMapping", r.ctx, r.defined, FALSE)
    ELSE IF has_form_of_keyword(r.reverse.s)
    THEN RevResult("ok", r.ctx, r.defined, FALSE)
    ELSE LET e == ExpandIri(r, r.reverse.s)
         IN IF e.k = "error" THEN RevResult(e.v, e.ctx, e.defined, TRUE)
            ELSE IF e.k = "null" THEN RevResult("InvalidIriMapping", e.ctx, e.defined, TRUE)
            ELSE IF ~is_absolute_ref_or_blank_node_ident(e.v)
            THEN RevResult("InvalidIriMapping", e.ctx, e.defined, TRUE)
            ELSE LET c == process_conatiner(r.value, [r.builder EXCEPT !.iri = e.v])
                 IN IF ~c.ok THEN RevResult(c.code, e.ctx, e.defined, TRUE)
                    ELSE RevResult("ok",
                                   WithTerm(e.ctx, r.term,
                                            Build([c.definition EXCEPT !.reverse = TRUE])),
                                   [e.defined EXCEPT ![r.term] = "true"], TRUE)

\* the calls of run_for_reverse: the term is in the defined map, marked as
\* being defined; the other term is absent from the map or already defined
RevInputs ==
    {r \in [phase : {"ready"},
            value : [id : BOOLEAN, nest : BOOLEAN, container : WireContainers],
            reverse : WireReverses,
            term : Terms,
            ctx : {NewContext, PrevCtx},
            defined : [Terms -> {"none", "false", "true"}],
            builder : {NewBuilder(p) : p \in BOOLEAN},
            expand : {"value", "null", "error"}] :
        /\ r.defined[r.term] = "false"
        /\ r.defined[OtherTerm(r.term)] # "false"
        /\ r.reverse # WStr("dep") => r.expand = "value"
        /\ r.defined[OtherTerm(r.term)] = "true" <=> r.ctx[1][OtherTerm(r.term)].k = "def"}

InitRev ==
    /\ active0 = NewContext
    /\ local0 = JNull
    /\ override0 = FALSE
    /\ propagate0 = TRUE
    /\ limit = 0
    /\ world = [i \in Iris |-> NoDoc]
    /\ stack = <<>>
    /\ cache = [i \in Iris |-> NoDoc]
    /\ loads = <<>>
    /\ outs = <<>>
    /\ rev \in RevInputs
    /\ par = [phase |-> "idle"]

RunForReverse ==
    /\ rev.phase = "ready"
    /\ rev' = [phase |-> "done", call |-> rev, result |-> run_for_reverse(rev)]
    /\ UNCHANGED <<par, active0, local0, override0, propagate0, limit, world, stack, cache, loads, outs>>

NextRev == RunForReverse

SpecRev == InitRev /\ [][NextRev]_vars

\* ------------------------------------------- concurrent top-level calls
\* Two futures of join_value on one processor, polled by one executor.  Each
\* owns its visited set and the cache join_value creates for it; the
\* variables stack, cache and loads are those of the future being polled,
\* par.other holds those of the future that is not.  A future gives up the
\* executor where it awaits the loader, and when it is done.  Before the two
\* run concurrently each of the two calls is made alone.

\* the local contexts of the first call
ParEntries == {JNull, JNum, JStr("p/x"), JStr("q/x"), JObj("t1", FALSE, "absent")}
ParLocals == ParEntries \cup {JArr(s) : s \in SeqsUpTo(ParEntries, MaxLen)}
\* the local contexts of the second call
ParLocals1 == {JStr("p/x"), JArr(<<JStr("q/x"), JStr("p/x")>>)}

EmptyCache == [i \in Iris |-> NoDoc]
Suspended(st, c, ld) == [stack |-> st, cache |-> c, loads |-> ld]

InitPar ==
    /\ active0 \in {NewContext, PrevCtx}
    /\ local0 \in ParLocals
    /\ override0 = TRUE
    /\ propagate0 \in BOOLEAN
    /\ limit = 0
    /\ world = [i \in Iris |-> NoDoc]
    /\ stack = <<>>
    /\ cache = EmptyCache
    /\ loads = <<>>
    /\ outs = <<>>
    /\ rev = [phase |-> "idle"]
    /\ \E l \in ParLocals1 :
          par = [phase |-> "ready", local1 |-> l, turn |-> "A", retired |-> "none",
                 mid |-> FALSE, other |-> Suspended(<<>>, EmptyCache, <<>>)]

\* join_value, called for the first local context alone, then for the second
\* alone, then for both at once
CallPar ==
    /\ ~Running
    /\ \/ /\ par.phase = "ready"
          /\ stack' = <<NewFrame(active0, local0, TopBase, {}, override0, propagate0)>>
          /\ par' = [par EXCEPT !.phase = "soloA"]
       \/ /\ par.phase = "soloA"
          /\ Len(outs) = 1
          /\ stack' = <<NewFrame(active0, par.local1, TopBase, {}, override0, propagate0)>>
          /\ par' = [par EXCEPT !.phase = "soloB"]
       \/ /\ par.phase = "soloB"
          /\ Len(outs) = 2
          /\ stack' = <<NewFrame(active0, local0, TopBase, {}, override0, propagate0)>>
          /\ par' = [par EXCEPT
                       !.phase = "both",
                       !.other = Suspended(
                           <<NewFrame(active0, par.local1, TopBase, {}, override0, propagate0)>>,
                           EmptyCache, <<>>)]
    /\ cache' = EmptyCache
    /\ loads' = <<>>
    /\ UNCHANGED <<rev, active0, local0, override0, propagate0, limit, world, outs>>

OtherTurn(t) == IF t = "A" THEN "B" ELSE "A"
\* the future being polled awaits the loader, has not been polled yet, or is done
AtSuspension ==
    IF ~Running THEN TRUE
    ELSE Top.pc = "load" \/ (Len(stack) = 1 /\ Top.i = 1 /\ Top.pc = "entry")

\* mutant: the two calls work on one remote_contexts_cache
Switch_SharedCache ==
    /\ par.phase = "both"
    /\ par.other.stack # <<>>
    /\ AtSuspension
    /\ stack' = par.other.stack
    /\ cache' = cache
    /\ loads' = par.other.loads
    /\ par' = [par EXCEPT !.turn = OtherTurn(@),
                          !.retired = IF Running THEN @ ELSE par.turn,
                          !.mid = @ \/ (Running /\ Top.pc = "load"),
                          !.other = Suspended(stack, cache, loads)]
    /\ UNCHANGED <<rev, active0, local0, override0, propagate0, limit, world, outs>>
\* the executor polls the other future: each keeps its own activations,
\* its own cache and its own loader calls
Switch ==
    /\ par.phase = "both"
    /\ par.other.stack # <<>>
    /\ AtSuspension
    /\ stack' = par.other.stack
    /\ cache' = par.other.cache
    /\ loads' = par.other.loads
    /\ par' = [par EXCEPT !.turn = OtherTurn(@),
                          !.retired = IF Running THEN @ ELSE par.turn,
                          !.mid = @ \/ (Running /\ Top.pc = "load"),
                          !.other = Suspended(stack, cache, loads)]
    /\ UNCHANGED <<rev, active0, local0, override0, propagate0, limit, world, outs>>

NextPar ==
    \/ CallPar
    \/ Switch
    \/ ProcessNull
    \/ ProcessString
    \/ LoaderRespond
    \/ Recurse
    \/ ProcessObject
    \/ InvalidEntry
    \/ Return

SpecPar == InitPar /\ [][NextPar]_vars

\* ------------------------------------------------------------------ claims
MainOut == outs[Main]
FoldOut == IF outs[1].st = "err" THEN outs[1] ELSE outs[3]
\* what a call hands back to its caller: Ok(context) or Err(code)
Returned(o) == [st |-> o.st, ctx |-> o.ctx, code |-> o.code]
SameOutcome(o1, o2) == o1.st = o2.st /\ o1.ctx = o2.ctx
PairOf(kinds) == IsPair /\ \A k \in 1..2 : local0.items[k].t \in kinds
StringsIn(items) == {k \in DOMAIN items : items[k].t = "str"}
\* the activations that have passed the overflow guard of a string entry
PastGuard(f) == f.pc \in {"load", "enter", "wait"}

C1_Scope ==
    /\ PairOf({"null", "str", "obj"})
    /\ propagate0
    /\ override0
    /\ \A k \in 1..2 : local0.items[k].t = "obj" => local0.items[k].propagate # "false"
    /\ Cardinality(StringsIn(local0.items)) <= 1
C2_ReentryIncreasesCount ==
    \A k \in 1..(Len(stack) - 1) :
        PastGuard(stack[k + 1]) => stack[k + 1].glen > stack[k].glen

\* C3: within one top-level call the loader is called at most once for each
\* resolved identifier; a string entry whose identifier is in the cache
\* takes the cached document.
C3_LoadedAtMostOnce ==
    /\ \A i, j \in DOMAIN loads : i # j => loads[i] # loads[j]
    /\ \A k \in DOMAIN stack :
          (PastGuard(stack[k]) /\ stack[k].hit) =>
              /\ stack[k].doc = world[stack[k].iri]
              /\ \E i \in DOMAIN loads : loads[i] = stack[k].iri
C3_Witness ==
    /\ Running
    /\ Top.pc = "enter"
    /\ Top.hit
    /\ Len(loads) >= 1

\* C4 (amended): join_value(A, null) with override_protected = true gives a
\* context without term definitions that has no previous context when
\* propagate is true; when propagate is false its previous context is A if A
\* has no previous context, and otherwise the copy of A whose previous
\* context was replaced by A in step 3.  With override_protected = false the
\* call fails with InvalidContextNullification when A holds a protected term
\* definition and gives the same context otherwise.
C4_Expected ==
    IF propagate0 THEN NewContext
    ELSE <<EmptyLayer>> \o (IF has_previous_context(active0)
                            THEN <<active0[1]>> \o active0
                            ELSE active0)
C5_OverflowBeyondLimitOnly ==
    /\ \A k \in DOMAIN stack : PastGuard(stack[k]) => stack[k].glen + 1 <= limit
    /\ \A k \in DOMAIN outs :
          outs[k].code = "ContextOverflow" => outs[k].count + 1 > limit

\* C6: the first failing entry aborts the whole call.  A local context with
\* an entry that cannot succeed fails and returns no context; when the
\* first entry of [a, b] fails on its own, the call on [a, b] ends with the
\* same error, the same loader calls and the same cache (nothing of b is
\* processed); an invalid first entry fails before any loader call; and the
\* caller's active context is the one every top-level activation still holds.
CannotSucceed(e) == e.t \in {"num", "arr"} \/ (e.t = "str" /\ e.ref = "%")
Items0 == to_ref_array(local0)
C6_FirstFailureAborts ==
    /\ (Finished /\ \E k \in DOMAIN Items0 : CannotSucceed(Items0[k])) =>
          /\ MainOut.st = "err"
          /\ MainOut.ctx = <<>>
    /\ (Finished /\ Len(Items0) >= 1 /\ CannotSucceed(Items0[1])) =>
          /\ MainOut.code = IF Items0[1].t = "str" THEN "Uncategorized" ELSE "InvalidLocalContext"
          /\ MainOut.loads = <<>>
          /\ \A i \in Iris : MainOut.cache[i] = NoDoc
    /\ (IsPair /\ Len(outs) >= 2 /\ outs[1].st = "err" /\ local0.items[1].t # "obj") =>
          outs[2] = outs[1]
    /\ (Running /\ Len(outs) < 2) => stack[1].active = active0
C6_Witness ==
    /\ Finished
    /\ IsPair
    /\ outs[1].code = "LoadingRemoteContextFailed"
    /\ Len(outs[1].loads) = 2
    /\ local0.items[2].t = "str"
    /\ outs[2] = outs[1]

\* C7: the entries of an array are processed left to right.  Every suspended
\* activation is inside the string entry its loop is at, so an entry's nested
\* recursion is over before the loop moves on; and when the loop of
\* join_value(A, [a, b]) arrives at b, the running result, the loader calls
\* made and the cache are exactly those of the completed join_value(A, a).
C7_Scope ==
    /\ IsPair
    /\ local0.items[1].t = "obj" => local0.items[1].propagate \notin {"true", "false"}
C7_AtSecond == InMain /\ Len(stack) = 1 /\ Top.i = 2 /\ Top.pc = "entry"
C7_LeftToRight ==
    /\ \A k \in 1..(Len(stack) - 1) :
          /\ stack[k].pc = "wait"
          /\ stack[k].i <= Len(stack[k].items)
          /\ EntryAt(stack[k]).t = "str"
    /\ Running => Top.pc # "wait"
    /\ (C7_Scope /\ C7_AtSecond) =>
          /\ outs[1].st = "ok"
          /\ Top.result = outs[1].ctx
          /\ loads = outs[1].loads
          /\ cache = outs[1].cache
C7_Witness ==
    /\ C7_Scope
    /\ C7_AtSecond
    /\ Len(loads) = 2
    /\ local0.items[2].t = "str"

\* C8 (as stated): the visited count the overflow guard sees for the second
\* of two string entries s1, s2 of one array does not depend on s1: it is
\* the count of the set the array's activation started with.
C8_SiblingCountIndependent ==
    \A k \in DOMAIN stack :
        (PastGuard(stack[k]) /\ stack[k].i = 2 /\ stack[k].items[1].t = "str") =>
            stack[k].glen = Cardinality(stack[k].rc0)

\* C8 (amended): the count the guard sees for a string entry is that of the
\* set its activation started with together with the identifiers of the
\* earlier string entries of the same array (s1 itself included); the
\* identifiers entered while those entries were processed are not in it,
\* because a nested activation starts from a copy of the set.
EarlierIds(f) ==
    {Resolve(f.items[j].ref, f.base) : j \in {m \in 1..(f.i - 1) : f.items[m].t = "str"}}
C8_CountIsOwnArrayOnly ==
    /\ \A k \in DOMAIN stack :
          PastGuard(stack[k]) =>
              /\ stack[k].glen = Cardinality(stack[k].rc0 \cup EarlierIds(stack[k]))
              /\ stack[k].rc = stack[k].rc0 \cup EarlierIds(stack[k]) \cup {stack[k].iri}
    /\ \A k \in 2..Len(stack) : stack[k].rc0 = stack[k - 1].rc
C8_Witness ==
    /\ Running
    /\ Len(stack) = 1
    /\ PastGuard(Top)
    /\ Top.i = 2
    /\ Top.items[1].t = "str"
    /\ \E n \in DOMAIN loads : loads[n] \notin Top.rc

\* C9: run_for_reverse fails with InvalidReverseProperty for every entry that
\* contains @id or @nest, whatever its @reverse and @container values, and
\* leaves the active context and the defined map as they were.
C9_IdOrNestRejected ==
    (rev.phase = "done" /\ (rev.call.value.id \/ rev.call.value.nest)) =>
        /\ rev.result.out = "InvalidReverseProperty"
        /\ rev.result.ctx = rev.call.ctx
        /\ rev.result.defined = rev.call.defined
        /\ ~rev.result.expanded
C9_Witness ==
    /\ rev.phase = "done"
    /\ rev.call.value.nest
    /\ ~rev.call.value.id
    /\ rev.call.reverse = WStr("dep")
    /\ rev.call.value.container = WStr("@list")
    /\ rev.result.out = "InvalidReverseProperty"

\* C10: for a reverse entry that reaches the container step, @container of
\* "@set" or "@index" succeeds and the parsed container is stored on the
\* definition; "@list", "@language", "@type", "@id", "@graph" or an array of
\* several container keywords fails with InvalidReverseProperty; no
\* @container succeeds and stores no container; a value that is no container
\* fails with InvalidContainerMapping.
C10_AtContainer ==
    /\ rev.phase = "done"
    /\ ~HasIdOrNest(rev.call.value)
    /\ rev.call.reverse.k = "str"
    /\ ~has_form_of_keyword(rev.call.reverse.s)
    /\ rev.result.expanded
    /\ ExpandIri(rev.call, rev.call.reverse.s).k = "value"
    /\ is_absolute_ref_or_blank_node_ident(ExpandIri(rev.call, rev.call.reverse.s).v)
C10_Installed == rev.result.ctx[1][rev.call.term]
C10_ContainerTable ==
    C10_AtContainer =>
        LET w == rev.call.value.container
        IN /\ (w \in {WStr("@set"), WStr("@index")}) =>
                 /\ rev.result.out = "ok"
                 /\ C10_Installed.k = "def"
                 /\ C10_Installed.container = ParsedItems(<<w.s>>)
           /\ (w.k = "str" /\ w.s \in {"@list", "@language", "@type", "@id", "@graph"}) =>
                 rev.result.out = "InvalidReverseProperty"
           /\ (w.k = "arr" /\ Len(w.items) >= 2 /\ ParseContainer(w) # ParseError) =>
                 rev.result.out = "InvalidReverseProperty"
           /\ (w = WAbsent) =>
                 /\ rev.result.out = "ok"
                 /\ C10_Installed.k = "def"
                 /\ C10_Installed.container = ContainerUnset
           /\ (w = WNum \/ w = WStr("bogus")
                 \/ (w.k = "arr" /\ \E i \in DOMAIN w.items : w.items[i] = "bogus")) =>
                 rev.result.out = "InvalidContainerMapping"
           /\ rev.result.out # "ok" =>
                 rev.result.ctx[1][rev.call.term] = rev.call.ctx[1][rev.call.term]
C10_Witness ==
    /\ C10_AtContainer
    /\ rev.call.value.container = WArr(<<"@index", "@set">>)
    /\ rev.result.out = "InvalidReverseProperty"

\* C11: for an entry without @id and @nest.  When run_for_reverse commits
\* (@reverse is a string without the form of a keyword, it expands to an
\* absolute IRI or a blank node identifier, the container is accepted) the
\* active context maps the term to a definition whose IRI mapping is the
\* expanded value and whose reverse flag is true, in place of any earlier
\* definition of the term, and defined[term] is true.  When @reverse is no
\* string, expands to null, or expands to a value that is neither, the call
\* fails with InvalidIriMapping and the term's mapping is as it was.
C11_Expanded ==
    LET x == rev.call.reverse.s
    IN IF x = "dep"
       THEN (IF rev.call.expand = "value" THEN "http://a/dep"
             ELSE IF rev.call.expand = "null" THEN "null" ELSE "error")
       ELSE x
C11_ContainerAccepted ==
    rev.call.value.container \in
        {WAbsent, WNull, WStr("@set"), WStr("@index"), WArr(<<"@set">>), WArr(<<"@index">>)}
C11_TermNow == rev.result.ctx[1][rev.call.term]
C11_TermBefore == rev.call.ctx[1][rev.call.term]
C11_CommitOrIriError ==
    (rev.phase = "done" /\ ~rev.call.value.id /\ ~rev.call.value.nest) =>
        IF rev.call.reverse.k # "str"
        THEN rev.result.out = "InvalidIriMapping" /\ C11_TermNow = C11_TermBefore
        ELSE IF rev.call.reverse.s = "@type" THEN TRUE
        ELSE IF C11_Expanded = "error" THEN TRUE
        ELSE IF C11_Expanded \in {"null", "rel"}
        THEN rev.result.out = "InvalidIriMapping" /\ C11_TermNow = C11_TermBefore
        ELSE C11_ContainerAccepted =>
                /\ rev.result.out = "ok"
                /\ C11_TermNow.k = "def"
                /\ C11_TermNow.iri = C11_Expanded
                /\ C11_TermNow.reverse
                /\ C11_TermNow.protected = rev.call.builder.protected
                /\ rev.result.defined[rev.call.term] = "true"
C11_Witness ==
    /\ rev.phase = "done"
    /\ rev.call.term = "t1"
    /\ rev.call.ctx = PrevCtx
    /\ rev.call.reverse = WStr("dep")
    /\ rev.call.value.container = WStr("@index")
    /\ rev.result.out = "ok"
    /\ C11_TermNow.iri = "http://a/dep"
    /\ C11_TermNow.reverse
    /\ C11_TermBefore.k = "def"
    /\ ~C11_TermBefore.reverse

\* C12: when @reverse is a string with the form of a keyword and the entry
\* has neither @id nor @nest, run_for_reverse returns success without
\* installing anything: the active context is as it was, IRI expansion is
\* not invoked, and no error is raised whatever the @container value is.
C12_KeywordIsSilent ==
    (/\ rev.phase = "done"
     /\ ~rev.call.value.id
     /\ ~rev.call.value.nest
     /\ rev.call.reverse = WStr("@type")) =>
        /\ rev.result.out = "ok"
        /\ rev.result.ctx = rev.call.ctx
        /\ ~rev.result.expanded
C12_Witness ==
    /\ rev.phase = "done"
    /\ ~rev.call.value.id
    /\ ~rev.call.value.nest
    /\ rev.call.reverse = WStr("@type")
    /\ rev.call.value.container = WStr("@list")
    /\ rev.result.out = "ok"
    /\ rev.result.ctx[1][rev.call.term].k = "absent"

\* C13: the effective propagate flag of a merge call is the boolean @propagate
\* entry of the local context when that value is itself an object carrying
\* one, and the inherited flag otherwise: a @propagate that is no boolean is
\* ignored without an error, and an array, string or null local context
\* takes the inherited flag.  The flag is the one every null entry of the
\* call is processed with and the one every nested merge inherits.
C13_Expected(lc, inherited) ==
    IF lc.t = "obj" /\ lc.propagate = "true" THEN TRUE
    ELSE IF lc.t = "obj" /\ lc.propagate = "false" THEN FALSE
    ELSE inherited
\* the local context of the top-level call that is running
C13_CallLocal ==
    IF Len(outs) + 1 = Main THEN local0
    ELSE local0.items[IF Len(outs) = 0 THEN 1 ELSE 2]
C13_EffectivePropagate ==
    /\ Running => stack[1].prop = C13_Expected(C13_CallLocal, propagate0)
    /\ \A k \in 2..Len(stack) :
          stack[k].prop = C13_Expected(stack[k - 1].doc.ctx, stack[k - 1].prop)
    /\ (Len(outs) >= Main /\ local0.t = "obj" /\ local0.propagate = "other") =>
          /\ MainOut.st = "ok"
          /\ has_previous_context(MainOut.ctx) = has_previous_context(active0)
    /\ (/\ Len(outs) >= Main
        /\ Len(Items0) >= 1
        /\ \A k \in DOMAIN Items0 : Items0[k] = JNull
        /\ MainOut.st = "ok") =>
          (has_previous_context(MainOut.ctx) <=> ~propagate0)
C13_Witness ==
    /\ Finished
    /\ local0 = JObj("t1", FALSE, "false")
    /\ propagate0
    /\ active0 = PrevCtx
    /\ MainOut.st = "ok"
    /\ Len(MainOut.ctx) = 3

\* C14: at the start of a merge call, before any entry is applied, the
\* previous context of the running result is replaced by a copy of the
\* active context the call was given exactly when the effective propagate
\* flag is false and that active context already has a previous context; in
\* every other case the running result starts as a copy of the active
\* context.
C14_Start(f) ==
    IF ~f.prop /\ Len(f.active) > 1
    THEN <<f.active[1]>> \o f.active
    ELSE f.active
C14_SnapshotAtStart ==
    /\ \A k \in DOMAIN stack :
          (stack[k].i = 1 /\ stack[k].pc = "entry") => stack[k].result = C14_Start(stack[k])
    /\ (Len(outs) >= Main /\ local0 = JArr(<<>>)) =>
          /\ MainOut.st = "ok"
          /\ MainOut.ctx = IF ~propagate0 /\ Len(active0) > 1
                           THEN <<active0[1]>> \o active0
                           ELSE active0
C14_Witness ==
    /\ Len(stack) = 2
    /\ Top.i = 1
    /\ Top.pc = "entry"
    /\ ~Top.prop
    /\ Len(Top.active) = 3
    /\ Len(Top.result) = 4
    /\ Top.result[2] = Top.active[1]

\* C15: independent top-level calls of join_value share no mutable state.
\* When two calls are interleaved where they await the loader, in any order,
\* each returns what it returns when run alone, after the same loader calls
\* and with the same cache; a cached document is taken only by the call that
\* loaded it.
C15_BothDone == par.phase = "both" /\ ~Running /\ Len(outs) = 4
C15_OutOf(id) == IF par.retired = id THEN outs[3] ELSE outs[4]
C15_OwnCacheOnly(st, ld) ==
    \A k \in DOMAIN st :
        (PastGuard(st[k]) /\ st[k].hit) => \E i \in DOMAIN ld : ld[i] = st[k].iri
C15_CallsAreIndependent ==
    /\ C15_BothDone => (C15_OutOf("A") = outs[1] /\ C15_OutOf("B") = outs[2])
    /\ par.phase = "both" =>
          /\ C15_OwnCacheOnly(stack, loads)
          /\ C15_OwnCacheOnly(par.other.stack, par.other.loads)
C15_Witness ==
    /\ C15_BothDone
    /\ par.mid
    /\ par.retired = "B"
    /\ Len(outs[1].loads) = 2
    /\ \E i \in DOMAIN outs[3].loads : \E j \in DOMAIN outs[4].loads :
          outs[3].loads[i] = outs[4].loads[j]

\* C16: run_for_reverse applies its checks in one order and stops at the
\* first that fails, so an entry that breaks several rules reports the
\* earliest: @id or @nest present (InvalidReverseProperty), then @reverse
\* that is no string (InvalidIriMapping), then the silent success of a
\* keyword-shaped @reverse, then a failed expansion (its own error) or an
\* expansion to null or to a value that is neither an absolute IRI nor a
\* blank node identifier (InvalidIriMapping), then @container that does not
\* parse (InvalidContainerMapping), then a container that is not supported
\* (InvalidReverseProperty).
C16_Unparsable(w) ==
    \/ w = WNum
    \/ w = WStr("bogus")
    \/ (w.k = "arr" /\ \E i \in DOMAIN w.items : w.items[i] = "bogus")
C16_Expected ==
    LET c == rev.call
    IN IF c.value.id \/ c.value.nest THEN "InvalidReverseProperty"
       ELSE IF c.reverse.k # "str" THEN "InvalidIriMapping"
       ELSE IF c.reverse.s = "@type" THEN "ok"
       ELSE IF C11_Expanded = "error" THEN "CyclicIriMapping"
       ELSE IF C11_Expanded \in {"null", "rel"} THEN "InvalidIriMapping"
       ELSE IF C16_Unparsable(c.value.container) THEN "InvalidContainerMapping"
       ELSE IF ~C11_ContainerAccepted THEN "InvalidReverseProperty"
       ELSE "ok"
C16_EarliestStepReports ==
    rev.phase = "done" => rev.result.out = C16_Expected
C16_Witness ==
    /\ rev.phase = "done"
    /\ ~rev.call.value.id
    /\ ~rev.call.value.nest
    /\ rev.call.reverse = WStr("rel")
    /\ rev.call.value.container = WArr(<<"@list", "bogus">>)
    /\ rev.result.out = "InvalidIriMapping"

\* C17: during one top-level call the remote document cache only grows.  In
\* every step of a running call an entry that is present stays as it is; an
\* entry appears only for an identifier that was absent, in the step in which
\* the loader answered that identifier with a document; and a step that ends
\* the call with ContextOverflow or LoadingRemoteContextFailed leaves the
\* cache as it was, ContextOverflow also without a loader call.
C17_Fails(codes) ==
    /\ Len(outs') = Len(outs) + 1
    /\ outs'[Len(outs')].code \in codes
C17_Step ==
    /\ \A i \in Iris : cache[i] # NoDoc => cache'[i] = cache[i]
    /\ \A i \in Iris :
          cache'[i] # cache[i] =>
              /\ cache'[i].k \in {"noctx", "doc"}
              /\ cache'[i] = world'[i]
              /\ loads' = Append(loads, i)
    /\ C17_Fails({"ContextOverflow", "LoadingRemoteContextFailed"}) =>
          /\ cache' = cache
          /\ outs'[Len(outs')].cache = cache
    /\ C17_Fails({"ContextOverflow"}) => (loads' = loads /\ world' = world)
C17_CacheOnlyGrows == [][Running => C17_Step]_vars
C17_Witness ==
    /\ Len(outs) = Main
    /\ MainOut.code = "LoadingRemoteContextFailed"
    /\ Len(MainOut.loads) = 2
    /\ MainOut.cache[MainOut.loads[1]].k = "doc"
    /\ MainOut.cache[MainOut.loads[2]] = NoDoc

\* C18 (as stated): whenever run_for_reverse returns success for a term, the
\* entry of that term in the defined map is true afterwards.
C18_SuccessMarksDefined ==
    (rev.phase = "done" /\ rev.result.out = "ok") =>
        rev.result.defined[rev.call.term] = "true"

\* C19 (as stated): with override_protected = false a null entry never
\* discards a protected term definition: at every null entry, if the running
\* result at that point (the definitions of earlier entries of the same
\* array included) holds a protected term definition, the step ends the call
\* with InvalidContextNullification.
C19_AtNullOverProtected ==
    /\ Running
    /\ Top.pc = "entry"
    /\ Top.i <= Len(Top.items)
    /\ EntryAt(Top) = JNull
    /\ ~Top.op
    /\ has_protected_term_definition(Top.result)
C19_NullNeverDropsProtected ==
    [][C19_AtNullOverProtected =>
          /\ Len(outs') = Len(outs) + 1
          /\ outs'[Len(outs')].code = "InvalidContextNullification"]_vars

\* C20 (as stated): whenever join_value succeeds with an effective propagate
\* flag of false, the context it returns has a previous context through
\* which the active context the call was given can be restored, for every
\* local context and every active context.
C20_Restorable(c, a) ==
    \E k \in 2..Len(c) : SubSeq(c, k, Len(c)) = a
C20_NonPropagatingIsRestorable ==
    (/\ Len(outs) >= Main
     /\ MainOut.st = "ok"
     /\ ~C13_Expected(local0, propagate0)) =>
        /\ has_previous_context(MainOut.ctx)
        /\ C20_Restorable(MainOut.ctx, active0)
====
